---- MODULE Spec2Model ----
(***************************************************************************)
(* The chunked, resumable transcription pipeline of transcript-utility.    *)
(*                                                                         *)
(* Three pipeline variants live in the repository and are modelled side by *)
(* side; `variant` says which one a behaviour runs:                        *)
(*   "utility"  transcript_utility.py      mp3_to_transcript               *)
(*   "audio"    youtube_audio_transcript.py AudioTranscript.get_transcript *)
(*   "yt"       yt_transcript.py           YouTubeTranscript.get_transcript*)
(*                                                                         *)
(* The durable state is the job directory: the per-chunk text records, the *)
(* final transcript and the per-chunk audio files.  A chunk's text is      *)
(* modelled by the span of audio the backend was handed: the backend is a  *)
(* function of the audio it hears, so two texts are equal exactly when     *)
(* they transcribe the same span.                                          *)
(***************************************************************************)
EXTENDS Integers, Sequences, FiniteSets, TLC

\* ------------------------------------------------------------------ bounds

\* chunk_length_ms: int = 60000, the default of mp3_to_transcript.
DefaultChunkLengthMs == 60000

\* Audio durations and chunk lengths are multiples of half the default chunk.
TickMs == DefaultChunkLengthMs \div 2

\* Longest audio, in ticks (11 chunks of one tick: two-digit chunk indices).
MaxTicks == 11

\* Runs of the pipeline in one behaviour.
MaxRuns == 2

\* Chunk records an external process deletes in one behaviour.
MaxDeletes == 1

Durations == {k * TickMs : k \in 0..MaxTicks}

\* The chunk lengths a caller passes: the default and half of it.
ChunkLengths == {TickMs, DefaultChunkLengthMs}

\* ------------------------------------------------------------------ state

VARIABLES
    variant,                \* which of the three pipelines this behaviour runs
    duration,               \* len(audio): duration of the decoded audio, ms
    records,                \* chunk index -> text of <base>_chunk_<i>.txt on disk
    writtenUnder,           \* chunk index -> chunk length its record was written under
    final,                  \* content of <base>.txt, or NoFile
    tempFiles,              \* leftover NamedTemporaryFile chunk audio files
    chunkAudio,             \* chunk index -> span held by its chunk audio file
    pc,                     \* where the current run stands
    runs,                   \* runs started so far
    deletes,                \* chunk records deleted by an external process
    dirs,                   \* directories the pipeline has created
    whisper,                \* the module global `whisper`: "module", or "None"
                            \* when the import of whisper failed
    \* locals of the run
    chunk_length_ms,
    force_transcribe,       \* args.force_transcribe of main()
    whisper_model,          \* name of the local model, "None" for the OpenAI API
    no_clean_up,            \* get_transcript(no_clean_up=...)
    chunks,                 \* number of segments (mp3_to_transcript)
    chunk_list,             \* `chunks` of get_transcript: the spans of the slices
    existing_chunks,        \* sorted(glob(...)) of the resume scan
    start_chunk,            \* first index of the per-chunk loop
    chunk_index,            \* i of the per-chunk loop
    chunk,                  \* the slice handed to the backend
    transcript,             \* text of the chunk (utility) / accumulated text
    transcript_text,        \* text the backend returned (get_transcript)
    all_chunk_transcripts,  \* sorted(glob(...)) of combine_transcripts
    \* observation of the run (not read by the program)
    calls,                  \* chunk indices the backend was invoked for, in order
    model_loads,            \* whisper.load_model calls of the run
    atStart,                \* records and final when the run started
    processed,              \* the run went past the existing-transcript check
    saved,                  \* the run has written the final transcript
    error,                  \* the exception that ended the run, or "none"
    lastRun                 \* how the previous run ended, see RunEnded

vars == <<variant, duration, records, writtenUnder, final, tempFiles,
          chunkAudio, pc, runs, deletes, chunk_length_ms, force_transcribe,
          no_clean_up, chunks, chunk_list, existing_chunks, start_chunk,
          chunk_index, chunk, transcript, transcript_text,
          all_chunk_transcripts, calls, atStart, processed, saved,
          error, lastRun, dirs, whisper, whisper_model, model_loads>>

disk == <<records, writtenUnder, final, tempFiles, chunkAudio>>

locals == <<chunk_length_ms, force_transcribe, no_clean_up, chunks,
            chunk_list, existing_chunks, start_chunk, chunk_index, chunk,
            transcript, transcript_text, all_chunk_transcripts>>

\* The backend a run was asked for, and whether it is there.
backend == <<whisper_model, whisper>>

NoFile == <<<<"absent">>>>

NoRun == [ended |-> "returned", k |-> -1, at |-> -1, chunk_length_ms |-> 0,
          expected |-> NoFile]

NoRecords == [i \in {} |-> NoFile]

\* What a run found when it started, before any run has started.
NothingAtStart ==
    [records |-> NoRecords, final |-> NoFile, dirs |-> {}, tempFiles |-> 0]

\* What a run finds when it starts.
AtStart ==
    [records |-> records, final |-> final, dirs |-> dirs,
     tempFiles |-> tempFiles]

\* ------------------------------------------------------------------ helpers

\* math.ceil(len(audio) / chunk_length_ms)
Ceil(a, b) == IF a % b = 0 THEN a \div b ELSE a \div b + 1

Min(a, b) == IF a <= b THEN a ELSE b

\* Mutant of Slice: the ends of the slice are not clamped.
SliceUnclamped(start_time, end_time) == <<start_time, end_time>>

\* AudioSegment.__getitem__ on a slice: both ends are clamped to len(audio).
Slice(start_time, end_time) ==
    <<Min(start_time, duration), Min(end_time, duration)>>

\* The backend's text for a slice of audio: determined by what it hears.
Transcribe(audio_chunk) == <<"text", audio_chunk[1], audio_chunk[2]>>

\* str(i): the decimal digits of a chunk index, as character codes.
RECURSIVE Digits(_)
Digits(n) ==
    IF n < 10 THEN <<48 + n>> ELSE Append(Digits(n \div 10), 48 + (n % 10))

\* get_output_file_path(output_dir, f'{base_name}_chunk_{chunk_index}', "txt"):
\* the part of the path after the common prefix '<dir>/<base>_chunk_'.
ChunkFileName(i) == Digits(i) \o <<46, 116, 120, 116>>

\* str.__lt__: lexicographic order on character codes.
RECURSIVE StrLess(_, _)
StrLess(a, b) ==
    IF b = <<>> THEN FALSE
    ELSE IF a = <<>> THEN TRUE
    ELSE IF Head(a) # Head(b) THEN Head(a) < Head(b)
    ELSE StrLess(Tail(a), Tail(b))

\* sorted(glob.glob(.../<base>_chunk_*.txt)): the chunk records on disk, each
\* named by its index, in the order of their file names: the least name first,
\* then the rest in order.
SortedNames[S \in SUBSET (0..MaxTicks)] ==
    IF S = {} THEN <<>>
    ELSE LET first == CHOOSE i \in S :
                        \A j \in S \ {i} : StrLess(ChunkFileName(i), ChunkFileName(j))
         IN  <<first>> \o SortedNames[S \ {first}]

SortedGlob(S) == SortedNames[S]

Range(s) == {s[k] : k \in 1..Len(s)}

\* '\n'.join(full_transcript)
RECURSIVE Join(_)
Join(texts) ==
    IF texts = <<>> THEN <<>>
    ELSE IF Len(texts) = 1 THEN <<texts[1]>>
    ELSE <<texts[1], <<"\n">>>> \o Join(Tail(texts))

\* os.remove / rmtree of a set of chunk records.
Without(recs, S) == [i \in DOMAIN recs \ S |-> recs[i]]

\* An audio_file_path: its directory part ("" when the path has no '/'), the
\* name of the file without extension, and the extension.
GoodPath == <<"", "audio", ".mp3">>
UnsupportedPath == <<"", "audio", ".flac">>
MissingPath == <<"", "nosuch", ".mp3">>
MissingDirPath == <<"nodir", "nosuch", ".mp3">>

AudioPaths == {GoodPath, UnsupportedPath, MissingPath, MissingDirPath}

\* os.path.exists(audio_file_path): the audio files there are.
AudioFilesOnDisk == {GoodPath, UnsupportedPath}

\* os.path.dirname(path)
Dirname(path) == path[1]

\* os.path.splitext(audio_file_path)[1].lower()
AudioFormat(path) == path[3]

\* if audio_format in ['.mp3', '.wav', '.m4a']
SupportedFormats == {".mp3", ".wav", ".m4a"}

\* output_dir = base_name: the directory of the job.
OutputDir == "output_dir"

\* ensure_directory: the first positional str argument with a '/' in it has
\* its directory created (ensure_dir) before the wrapped function runs.
EnsureDirectory(path) ==
    IF Dirname(path) # "" THEN dirs \cup {Dirname(path)} ELSE dirs

\* ------------------------------------------------------------------ Init

\* A fresh job directory and a decoded audio file of some duration.
Init ==
    /\ variant \in {"utility", "audio", "yt"}
    /\ duration \in Durations
    /\ records = NoRecords
    /\ writtenUnder = NoRecords
    /\ final = NoFile
    /\ tempFiles = 0
    /\ chunkAudio = NoRecords
    /\ pc = "idle"
    /\ runs = 0
    /\ deletes = 0
    /\ chunk_length_ms = 0
    /\ force_transcribe = FALSE
    /\ no_clean_up = FALSE
    /\ chunks = 0
    /\ chunk_list = <<>>
    /\ existing_chunks = <<>>
    /\ start_chunk = 0
    /\ chunk_index = 0
    /\ chunk = <<0, 0>>
    /\ transcript = <<>>
    /\ transcript_text = <<>>
    /\ all_chunk_transcripts = <<>>
    /\ calls = <<>>
    /\ atStart = NothingAtStart
    /\ dirs = {}
    /\ whisper = "module"
    /\ whisper_model = "None"
    /\ model_loads = 0
    /\ processed = FALSE
    /\ saved = FALSE
    /\ error = "none"
    /\ lastRun = NoRun

\* The locals of a run that has ended are gone.
ResetLocals ==
    /\ chunk_length_ms' = 0
    /\ force_transcribe' = FALSE
    /\ no_clean_up' = FALSE
    /\ chunks' = 0
    /\ chunk_list' = <<>>
    /\ existing_chunks' = <<>>
    /\ start_chunk' = 0
    /\ chunk_index' = 0
    /\ chunk' = <<0, 0>>
    /\ transcript' = <<>>
    /\ transcript_text' = <<>>
    /\ all_chunk_transcripts' = <<>>
    /\ whisper_model' = "None"
    /\ whisper' = "module"

\* ------------------------------------------------- transcript_utility.py

\* Mutant of StartChunk: no resume, every run starts at chunk 0.
StartChunkFromZero(existing) == 0

\* start_chunk = len(existing_chunks)
StartChunk(existing) == Len(existing)

\* mp3_to_transcript up to the per-chunk loop.  `use` is the answer to the
\* "Use existing file? (y/n)" prompt, asked only when <base>.txt exists;
\* `force` is args.force_transcribe, which main() parses and passes nowhere;
\* `module` is what the import of whisper left in the global `whisper`.
mp3_to_transcript(audio_file_path, c, model, module, force, use) ==
    /\ variant = "utility"
    /\ pc = "idle"
    /\ runs < MaxRuns
    /\ runs' = runs + 1
    /\ atStart' = AtStart
    /\ calls' = <<>>
    /\ model_loads' = 0
    /\ chunk_length_ms' = c
    /\ force_transcribe' = force
    /\ whisper_model' = model
    /\ whisper' = module
    /\ IF audio_file_path \notin AudioFilesOnDisk
       THEN \* raise FileNotFoundError(f"Audio file not found: ...")
            /\ dirs' = EnsureDirectory(audio_file_path)
            /\ pc' = "failed"
            /\ error' = "FileNotFoundError"
            /\ processed' = FALSE
            /\ UNCHANGED <<chunks, existing_chunks, start_chunk, chunk_index>>
       ELSE \* os.makedirs(output_dir, exist_ok=True)
            /\ dirs' = EnsureDirectory(audio_file_path) \cup {OutputDir}
            /\ IF final # NoFile /\ use
               THEN /\ pc' = "done"
                    /\ error' = error
                    /\ processed' = FALSE
                    /\ UNCHANGED <<chunks, existing_chunks, start_chunk,
                                   chunk_index>>
               ELSE IF AudioFormat(audio_file_path) \notin SupportedFormats
               THEN \* raise ValueError(f"Unsupported audio format: ...")
                    /\ pc' = "failed"
                    /\ error' = "ValueError"
                    /\ processed' = FALSE
                    /\ UNCHANGED <<chunks, existing_chunks, start_chunk,
                                   chunk_index>>
               ELSE /\ pc' = "loop"
                    /\ error' = error
                    /\ processed' = TRUE
                    /\ chunks' = Ceil(duration, c)
                    /\ existing_chunks' = SortedGlob(DOMAIN records)
                    /\ start_chunk' = StartChunk(existing_chunks')
                    /\ chunk_index' = start_chunk'
    /\ UNCHANGED <<variant, duration, disk, deletes, saved, lastRun,
                   no_clean_up, chunk_list, chunk, transcript,
                   transcript_text, all_chunk_transcripts>>

\* Mutant of loop_exit: the run returns after the loop, without
\* combine_transcripts.
loop_exit_returns ==
    /\ variant = "utility"
    /\ pc = "loop"
    /\ chunk_index >= chunks
    /\ pc' = "done"
    /\ UNCHANGED <<variant, duration, disk, dirs, runs, deletes, locals,
                   backend, model_loads, calls, atStart, processed, saved,
                   error, lastRun>>

\* for i in range(start_chunk, chunks): the loop is over, on to
\* combine_transcripts.
loop_exit ==
    /\ variant = "utility"
    /\ pc = "loop"
    /\ chunk_index >= chunks
    /\ pc' = "combine"
    /\ UNCHANGED <<variant, duration, dirs, whisper_model, whisper, model_loads,
                   disk, runs, deletes, locals, calls,
                   atStart, processed, saved, error, lastRun>>

\* process_audio_chunk, to the export of the slice into a temporary file.
process_audio_chunk ==
    /\ variant = "utility"
    /\ pc = "loop"
    /\ chunk_index < chunks
    /\ LET start_time == chunk_index * chunk_length_ms
           end_time == start_time + chunk_length_ms
       IN  chunk' = Slice(start_time, end_time)
    /\ tempFiles' = tempFiles + 1
    /\ pc' = "transcribe"
    /\ UNCHANGED <<variant, duration, dirs, whisper_model, whisper, model_loads,
                   records, writtenUnder, final, chunkAudio,
                   runs, deletes, chunk_length_ms, force_transcribe,
                   no_clean_up, chunks, chunk_list, existing_chunks,
                   start_chunk, chunk_index, transcript, transcript_text,
                   all_chunk_transcripts, calls, atStart, processed, saved, error,
                   lastRun>>

\* Transcriber.transcribe returns the text of the chunk.
Transcriber_transcribe ==
    /\ variant = "utility"
    /\ pc = "transcribe"
    /\ whisper_model # "None" => whisper # "None"
    /\ model_loads' = IF whisper_model # "None" THEN model_loads + 1
                                                ELSE model_loads
    /\ calls' = Append(calls, chunk_index)
    /\ transcript' = <<Transcribe(chunk)>>
    /\ pc' = "write"
    /\ UNCHANGED <<variant, duration, dirs, whisper_model, whisper,
                   disk, runs, deletes, chunk_length_ms,
                   force_transcribe, no_clean_up, chunks, chunk_list,
                   existing_chunks, start_chunk, chunk_index, chunk,
                   transcript_text, all_chunk_transcripts, atStart, processed, saved, error,
                   lastRun>>

\* Mutant of Transcriber_raises: the failure handler discards the chunk
\* records written so far.
Transcriber_raises_discards ==
    /\ variant = "utility"
    /\ pc = "transcribe"
    /\ whisper_model # "None" => whisper # "None"
    /\ model_loads' = IF whisper_model # "None" THEN model_loads + 1
                                                ELSE model_loads
    /\ calls' = Append(calls, chunk_index)
    /\ pc' = "failed"
    /\ error' = "TranscriptionError"
    /\ records' = NoRecords
    /\ writtenUnder' = NoRecords
    /\ UNCHANGED <<variant, duration, dirs, whisper_model, whisper,
                   final, tempFiles, chunkAudio, runs,
                   deletes, locals, atStart, processed, saved, lastRun>>

\* Mutant of Transcriber_raises: the error is caught and the chunk is tried
\* again.
Transcriber_raises_retries ==
    /\ variant = "utility"
    /\ pc = "transcribe"
    /\ whisper_model # "None" => whisper # "None"
    /\ calls' = Append(calls, chunk_index)
    /\ error' = "TranscriptionError"
    /\ UNCHANGED <<variant, duration, disk, dirs, pc, runs, deletes, locals,
                   backend, model_loads, atStart, processed, saved, lastRun>>

\* Transcriber.transcribe raises: error_handler logs and re-raises, nothing
\* between the backend and main() catches, the run ends.
Transcriber_raises ==
    /\ variant = "utility"
    /\ pc = "transcribe"
    /\ whisper_model # "None" => whisper # "None"
    /\ model_loads' = IF whisper_model # "None" THEN model_loads + 1
                                                ELSE model_loads
    /\ calls' = Append(calls, chunk_index)
    /\ pc' = "failed"
    /\ error' = "TranscriptionError"
    /\ UNCHANGED <<variant, duration, dirs, whisper_model, whisper,
                   disk, runs, deletes, locals, atStart,
                   processed, saved, lastRun>>

\* _transcribe_with_whisper: a local model is asked for and the import of
\* whisper had failed: raise ImportError("whisper module not found. ...")
Transcriber_unavailable ==
    /\ variant = "utility"
    /\ pc = "transcribe"
    /\ whisper_model # "None"
    /\ whisper = "None"
    /\ pc' = "failed"
    /\ error' = "ImportError"
    /\ UNCHANGED <<variant, duration, disk, dirs, runs, deletes, locals,
                   backend, model_loads, calls, atStart, processed, saved,
                   lastRun>>

\* Mutant of write_chunk_transcript: the text is not written before the loop
\* goes on.
write_chunk_transcript_deferred ==
    /\ variant = "utility"
    /\ pc = "write"
    /\ pc' = "remove"
    /\ UNCHANGED <<variant, duration, disk, dirs, runs, deletes, locals,
                   backend, model_loads, calls, atStart, processed, saved,
                   error, lastRun>>

\* with open(chunk_transcript_path, 'w') as f: f.write(transcript)
write_chunk_transcript ==
    /\ variant = "utility"
    /\ pc = "write"
    /\ records' = (chunk_index :> transcript[1]) @@ records
    /\ writtenUnder' = (chunk_index :> chunk_length_ms) @@ writtenUnder
    /\ pc' = "remove"
    /\ UNCHANGED <<variant, duration, dirs, whisper_model, whisper, model_loads,
                   final, tempFiles, chunkAudio, runs,
                   deletes, locals, calls, atStart, processed, saved, error, lastRun>>

\* os.remove(chunk_file_path), and the loop moves to the next index.
remove_chunk_file ==
    /\ variant = "utility"
    /\ pc = "remove"
    /\ tempFiles' = tempFiles - 1
    /\ chunk_index' = chunk_index + 1
    /\ pc' = "loop"
    /\ UNCHANGED <<variant, duration, dirs, whisper_model, whisper, model_loads,
                   records, writtenUnder, final, chunkAudio,
                   runs, deletes, chunk_length_ms, force_transcribe,
                   no_clean_up, chunks, chunk_list, existing_chunks,
                   start_chunk, chunk, transcript, transcript_text,
                   all_chunk_transcripts, calls, atStart, processed, saved, error,
                   lastRun>>

\* combine_transcripts: all_chunk_transcripts = sorted(glob.glob(...))
combine_list ==
    /\ variant = "utility"
    /\ pc = "combine"
    /\ all_chunk_transcripts' = SortedGlob(DOMAIN records)
    /\ pc' = "read"
    /\ UNCHANGED <<variant, duration, dirs, whisper_model, whisper, model_loads,
                   disk, runs, deletes, chunk_length_ms,
                   force_transcribe, no_clean_up, chunks, chunk_list,
                   existing_chunks, start_chunk, chunk_index, chunk,
                   transcript, transcript_text, calls, atStart, processed, saved, error,
                   lastRun>>

\* combine_transcripts: read every listed file, then write the joined text.
\* A listed file that is gone makes open() raise FileNotFoundError.
combine_write ==
    /\ variant = "utility"
    /\ pc = "read"
    /\ IF Range(all_chunk_transcripts) \subseteq DOMAIN records
       THEN /\ final' = Join([k \in 1..Len(all_chunk_transcripts) |->
                                 records[all_chunk_transcripts[k]]])
            /\ saved' = TRUE
            /\ pc' = "cleanup"
            /\ UNCHANGED error
       ELSE /\ pc' = "failed"
            /\ error' = "FileNotFoundError"
            /\ UNCHANGED <<final, saved>>
    /\ UNCHANGED <<variant, duration, dirs, whisper_model, whisper, model_loads,
                   records, writtenUnder, tempFiles,
                   chunkAudio, runs, deletes, locals, calls, atStart,
                   processed, lastRun>>

\* Mutant of combine_remove: the loop walks the list and removes nothing.
combine_remove_keeps ==
    /\ variant = "utility"
    /\ pc = "cleanup"
    /\ all_chunk_transcripts # <<>>
    /\ all_chunk_transcripts' = Tail(all_chunk_transcripts)
    /\ UNCHANGED <<variant, duration, dirs, whisper_model, whisper, model_loads,
                   disk, pc, runs, deletes, chunk_length_ms,
                   force_transcribe, no_clean_up, chunks, chunk_list,
                   existing_chunks, start_chunk, chunk_index, chunk,
                   transcript, transcript_text, calls, atStart, processed,
                   saved, error, lastRun>>

\* combine_transcripts: for chunk_file in all_chunk_transcripts:
\* os.remove(chunk_file), one file per step; a file that is gone raises.
combine_remove ==
    /\ variant = "utility"
    /\ pc = "cleanup"
    /\ all_chunk_transcripts # <<>>
    /\ LET chunk_file == Head(all_chunk_transcripts)
       IN  IF chunk_file \in DOMAIN records
           THEN /\ records' = Without(records, {chunk_file})
                /\ writtenUnder' = Without(writtenUnder, {chunk_file})
                /\ all_chunk_transcripts' = Tail(all_chunk_transcripts)
                /\ pc' = "cleanup"
                /\ UNCHANGED error
           ELSE /\ pc' = "failed"
                /\ error' = "FileNotFoundError"
                /\ UNCHANGED <<records, writtenUnder, all_chunk_transcripts>>
    /\ UNCHANGED <<variant, duration, dirs, whisper_model, whisper, model_loads,
                   final, tempFiles, chunkAudio, runs,
                   deletes, chunk_length_ms, force_transcribe, no_clean_up,
                   chunks, chunk_list, existing_chunks, start_chunk,
                   chunk_index, chunk, transcript, transcript_text, calls,
                   atStart, processed, saved, lastRun>>

\* combine_transcripts returns, mp3_to_transcript returns the file's path.
combine_done ==
    /\ variant = "utility"
    /\ pc = "cleanup"
    /\ all_chunk_transcripts = <<>>
    /\ pc' = "done"
    /\ UNCHANGED <<variant, duration, dirs, whisper_model, whisper, model_loads,
                   disk, runs, deletes, locals, calls,
                   atStart, processed, saved, error, lastRun>>

\* ------------------------------------------- youtube_audio_transcript.py

\* range(start, stop, step)
RECURSIVE PyRange(_, _, _)
PyRange(start, stop, step) ==
    IF start >= stop THEN <<>>
    ELSE <<start>> \o PyRange(start + step, stop, step)

\* _split_audio_into_chunks / _get_chunks_by_seconds:
\* [full_audio[i:i + chunk_size] for i in range(0, len(full_audio), chunk_size)]
SplitAudioIntoChunks(chunk_duration_in_sec) ==
    LET chunk_size == chunk_duration_in_sec * 1000
        starts == PyRange(0, duration, chunk_size)
    IN  [k \in 1..Len(starts) |-> Slice(starts[k], starts[k] + chunk_size)]

\* AudioTranscript.get_transcript, to the start of _generate_transcript.
AT_get_transcript(chunk_duration_in_sec, ncu) ==
    /\ variant = "audio"
    /\ pc = "idle"
    /\ runs < MaxRuns
    /\ runs' = runs + 1
    /\ atStart' = AtStart
    /\ calls' = <<>>
    /\ chunk_length_ms' = chunk_duration_in_sec * 1000
    /\ no_clean_up' = ncu
    /\ IF final # NoFile
       THEN /\ pc' = "done"
            /\ processed' = FALSE
            /\ UNCHANGED <<chunk_list, chunk_index, transcript>>
       ELSE /\ pc' = "loop"
            /\ processed' = TRUE
            /\ chunk_list' = SplitAudioIntoChunks(chunk_duration_in_sec)
            /\ chunk_index' = 0
            /\ transcript' = <<>>
    /\ UNCHANGED <<variant, duration, whisper_model, whisper, model_loads,
                   disk, deletes, force_transcribe, chunks,
                   existing_chunks, start_chunk, chunk, transcript_text,
                   all_chunk_transcripts, saved, error, lastRun>>
    /\ dirs' = dirs \cup {OutputDir}

\* _generate_transcript: transcript_file_path.exists(), the record is read.
AT_read_transcript ==
    /\ variant = "audio"
    /\ pc = "loop"
    /\ chunk_index < Len(chunk_list)
    /\ chunk_index \in DOMAIN records
    /\ transcript' = Append(transcript, records[chunk_index])
    /\ chunk_index' = chunk_index + 1
    /\ UNCHANGED <<variant, duration, dirs, whisper_model, whisper, model_loads,
                   disk, pc, runs, deletes, chunk_length_ms,
                   force_transcribe, no_clean_up, chunks, chunk_list,
                   existing_chunks, start_chunk, chunk, transcript_text,
                   all_chunk_transcripts, calls, atStart, processed, saved, error,
                   lastRun>>

\* _export_chunk_to_file: the slice is exported unless a chunk audio file of
\* that index is already there, which is then used as it is.
AT_export_chunk_to_file ==
    /\ variant = "audio"
    /\ pc = "loop"
    /\ chunk_index < Len(chunk_list)
    /\ chunk_index \notin DOMAIN records
    /\ chunk' = chunk_list[chunk_index + 1]
    /\ chunkAudio' = IF chunk_index \in DOMAIN chunkAudio
                     THEN chunkAudio
                     ELSE (chunk_index :> chunk') @@ chunkAudio
    /\ pc' = "transcribe"
    /\ UNCHANGED <<variant, duration, dirs, whisper_model, whisper, model_loads,
                   records, writtenUnder, final, tempFiles,
                   runs, deletes, chunk_length_ms, force_transcribe,
                   no_clean_up, chunks, chunk_list, existing_chunks,
                   start_chunk, chunk_index, transcript, transcript_text,
                   all_chunk_transcripts, calls, atStart, processed, saved, error,
                   lastRun>>

\* _transcribe_audio_chunk: openai.Audio.transcribe returns the text of the
\* chunk audio file.
AT_transcribe ==
    /\ variant = "audio"
    /\ pc = "transcribe"
    /\ calls' = Append(calls, chunk_index)
    /\ transcript_text' = <<Transcribe(chunkAudio[chunk_index])>>
    /\ pc' = "write"
    /\ UNCHANGED <<variant, duration, dirs, whisper_model, whisper, model_loads,
                   disk, runs, deletes, chunk_length_ms,
                   force_transcribe, no_clean_up, chunks, chunk_list,
                   existing_chunks, start_chunk, chunk_index, chunk,
                   transcript, all_chunk_transcripts, atStart, processed, saved, error,
                   lastRun>>

\* _transcribe_audio_chunk: openai.Audio.transcribe raises.
AT_transcribe_raises ==
    /\ variant = "audio"
    /\ pc = "transcribe"
    /\ calls' = Append(calls, chunk_index)
    /\ pc' = "failed"
    /\ error' = "TranscriptionError"
    /\ UNCHANGED <<variant, duration, dirs, whisper_model, whisper, model_loads,
                   disk, runs, deletes, locals, atStart,
                   processed, saved, lastRun>>

\* transcript_file_path.write_text(transcript_text); transcript += transcript_chunk
AT_write_text ==
    /\ variant = "audio"
    /\ pc = "write"
    /\ records' = (chunk_index :> transcript_text[1]) @@ records
    /\ writtenUnder' = (chunk_index :> chunk_length_ms) @@ writtenUnder
    /\ transcript' = Append(transcript, transcript_text[1])
    /\ chunk_index' = chunk_index + 1
    /\ pc' = "loop"
    /\ UNCHANGED <<variant, duration, dirs, whisper_model, whisper, model_loads,
                   final, tempFiles, chunkAudio, runs,
                   deletes, chunk_length_ms, force_transcribe, no_clean_up,
                   chunks, chunk_list, existing_chunks, start_chunk, chunk,
                   transcript_text, all_chunk_transcripts, calls, atStart,
                   processed, saved, error, lastRun>>

\* get_transcript after _generate_transcript: if transcript: write it.
AT_save_transcript ==
    /\ variant = "audio"
    /\ pc = "loop"
    /\ chunk_index >= Len(chunk_list)
    /\ IF transcript # <<>>
       THEN /\ final' = transcript
            /\ saved' = TRUE
            /\ pc' = IF no_clean_up THEN "done" ELSE "clean"
       ELSE /\ pc' = "done"
            /\ UNCHANGED <<final, saved>>
    /\ UNCHANGED <<variant, duration, dirs, whisper_model, whisper, model_loads,
                   records, writtenUnder, tempFiles,
                   chunkAudio, runs, deletes, locals, calls, atStart,
                   processed, error, lastRun>>

\* _clean: shutil.rmtree(self.output_dir)
AT_clean ==
    /\ variant = "audio"
    /\ pc = "clean"
    /\ records' = NoRecords
    /\ writtenUnder' = NoRecords
    /\ chunkAudio' = NoRecords
    /\ pc' = "done"
    /\ UNCHANGED <<variant, duration, whisper_model, whisper, model_loads,
                   final, tempFiles, runs, deletes, locals,
                   calls, atStart, processed, saved, error, lastRun>>
    /\ dirs' = dirs \ {OutputDir}

\* ------------------------------------------------------- yt_transcript.py

\* YouTubeTranscript.get_transcript, to the start of its loop: there is no
\* check for an existing transcript.
YT_get_transcript(chunk_second) ==
    /\ variant = "yt"
    /\ pc = "idle"
    /\ runs < MaxRuns
    /\ runs' = runs + 1
    /\ atStart' = AtStart
    /\ calls' = <<>>
    /\ chunk_length_ms' = chunk_second * 1000
    /\ pc' = "loop"
    /\ processed' = TRUE
    /\ chunk_list' = SplitAudioIntoChunks(chunk_second)
    /\ chunk_index' = 0
    /\ transcript' = <<>>
    /\ UNCHANGED <<variant, duration, whisper_model, whisper, model_loads,
                   disk, deletes, force_transcribe,
                   no_clean_up, chunks, existing_chunks, start_chunk, chunk,
                   transcript_text, all_chunk_transcripts, saved, error, lastRun>>
    /\ dirs' = dirs \cup {OutputDir}

\* get_transcript: os.path.exists(chunk_transcript_path), _read_transcript.
YT_read_transcript ==
    /\ variant = "yt"
    /\ pc = "loop"
    /\ chunk_index < Len(chunk_list)
    /\ chunk_index \in DOMAIN records
    /\ transcript' = Append(transcript, records[chunk_index])
    /\ chunk_index' = chunk_index + 1
    /\ UNCHANGED <<variant, duration, dirs, whisper_model, whisper, model_loads,
                   disk, pc, runs, deletes, chunk_length_ms,
                   force_transcribe, no_clean_up, chunks, chunk_list,
                   existing_chunks, start_chunk, chunk, transcript_text,
                   all_chunk_transcripts, calls, atStart, processed, saved, error,
                   lastRun>>

\* _get_chunk_file: the existence test is on '<prefix>.wav' while the export
\* writes '<prefix>', so the slice is exported afresh every time.
YT_get_chunk_file ==
    /\ variant = "yt"
    /\ pc = "loop"
    /\ chunk_index < Len(chunk_list)
    /\ chunk_index \notin DOMAIN records
    /\ chunk' = chunk_list[chunk_index + 1]
    /\ chunkAudio' = (chunk_index :> chunk') @@ chunkAudio
    /\ pc' = "transcribe"
    /\ UNCHANGED <<variant, duration, dirs, whisper_model, whisper, model_loads,
                   records, writtenUnder, final, tempFiles,
                   runs, deletes, chunk_length_ms, force_transcribe,
                   no_clean_up, chunks, chunk_list, existing_chunks,
                   start_chunk, chunk_index, transcript, transcript_text,
                   all_chunk_transcripts, calls, atStart, processed, saved, error,
                   lastRun>>

\* _transcribe: the backend returns the text of the exported chunk.
YT_transcribe ==
    /\ variant = "yt"
    /\ pc = "transcribe"
    /\ calls' = Append(calls, chunk_index)
    /\ transcript_text' = <<Transcribe(chunkAudio[chunk_index])>>
    /\ pc' = "write"
    /\ UNCHANGED <<variant, duration, dirs, whisper_model, whisper, model_loads,
                   disk, runs, deletes, chunk_length_ms,
                   force_transcribe, no_clean_up, chunks, chunk_list,
                   existing_chunks, start_chunk, chunk_index, chunk,
                   transcript, all_chunk_transcripts, atStart, processed, saved, error,
                   lastRun>>

\* _transcribe: the backend raises.
YT_transcribe_raises ==
    /\ variant = "yt"
    /\ pc = "transcribe"
    /\ calls' = Append(calls, chunk_index)
    /\ pc' = "failed"
    /\ error' = "TranscriptionError"
    /\ UNCHANGED <<variant, duration, dirs, whisper_model, whisper, model_loads,
                   disk, runs, deletes, locals, atStart,
                   processed, saved, lastRun>>

\* _transcribe: with open(output_file, 'w') as f: f.write(text);
\* get_transcript: transcript += chunk_transcript
YT_write ==
    /\ variant = "yt"
    /\ pc = "write"
    /\ records' = (chunk_index :> transcript_text[1]) @@ records
    /\ writtenUnder' = (chunk_index :> chunk_length_ms) @@ writtenUnder
    /\ transcript' = Append(transcript, transcript_text[1])
    /\ chunk_index' = chunk_index + 1
    /\ pc' = "loop"
    /\ UNCHANGED <<variant, duration, dirs, whisper_model, whisper, model_loads,
                   final, tempFiles, chunkAudio, runs,
                   deletes, chunk_length_ms, force_transcribe, no_clean_up,
                   chunks, chunk_list, existing_chunks, start_chunk, chunk,
                   transcript_text, all_chunk_transcripts, calls, atStart,
                   processed, saved, error, lastRun>>

\* get_transcript after the loop: if transcript: write it.  Nothing is
\* cleaned: clean() is a method of its own.
YT_save_transcript ==
    /\ variant = "yt"
    /\ pc = "loop"
    /\ chunk_index >= Len(chunk_list)
    /\ final' = IF transcript # <<>> THEN transcript ELSE final
    /\ saved' = (transcript # <<>>)
    /\ pc' = "done"
    /\ UNCHANGED <<variant, duration, dirs, whisper_model, whisper, model_loads,
                   records, writtenUnder, tempFiles,
                   chunkAudio, runs, deletes, locals, calls, atStart,
                   processed, error, lastRun>>

\* YouTubeTranscript.clean: shutil.rmtree(self.output_name); the transcript
\* '<output_name>.txt' lies outside that directory.
YT_clean ==
    /\ variant = "yt"
    /\ pc = "idle"
    /\ DOMAIN records # {} \/ DOMAIN chunkAudio # {}
    /\ records' = NoRecords
    /\ writtenUnder' = NoRecords
    /\ chunkAudio' = NoRecords
    /\ UNCHANGED <<variant, duration, whisper_model, whisper, model_loads,
                   final, tempFiles, pc, runs, deletes,
                   locals, calls, atStart, processed, saved, error, lastRun>>
    /\ dirs' = dirs \ {OutputDir}

\* ------------------------------------------------------------ run endings

GapFree(S) == S = 0..(Cardinality(S) - 1)

\* The records an uninterrupted run holds when its loop ends, had it gone on
\* from chunk `next`, and the final transcript it then writes.
CompletedRecords(next) ==
    LET rest == next..(chunks - 1)
    IN  [j \in DOMAIN records \cup rest |->
            IF j \in rest
            THEN Transcribe(Slice(j * chunk_length_ms,
                                  j * chunk_length_ms + chunk_length_ms))
            ELSE records[j]]

ExpectedFinal(next) ==
    LET completed == CompletedRecords(next)
        order == SortedGlob(DOMAIN completed)
    IN  Join([k \in 1..Len(order) |-> completed[order[k]]])

\* How a run of mp3_to_transcript ended, for the run that follows it.
\*   ended  "interrupted", "failed" or "returned"
\*   k      the chunk whose record had just been written when the run was
\*          interrupted (-1 when it was not interrupted right after a write)
\*   at     the chunk whose transcription raised (-1 when none did)
\*   expected  the final transcript the run would have written undisturbed
RunEnded ==
    IF variant = "utility" /\ pc = "remove"
    THEN [ended |-> "interrupted", k |-> chunk_index, at |-> -1,
          chunk_length_ms |-> chunk_length_ms,
          expected |-> ExpectedFinal(chunk_index + 1)]
    ELSE IF variant = "utility" /\ pc = "loop" /\ chunk_index > start_chunk
    THEN [ended |-> "interrupted", k |-> chunk_index - 1, at |-> -1,
          chunk_length_ms |-> chunk_length_ms,
          expected |-> ExpectedFinal(chunk_index)]
    ELSE IF variant = "utility" /\ pc = "failed"
            /\ error = "TranscriptionError"
    THEN [ended |-> "failed", k |-> -1, at |-> chunk_index,
          chunk_length_ms |-> chunk_length_ms,
          expected |-> ExpectedFinal(chunk_index)]
    ELSE NoRun

ResetObservation ==
    /\ calls' = <<>>
    /\ atStart' = NothingAtStart
    /\ processed' = FALSE
    /\ saved' = FALSE
    /\ error' = "none"
    /\ model_loads' = 0

\* The process is interrupted (killed) in the middle of a run: whatever is on
\* disk stays as it is.
Interrupt ==
    /\ pc \notin {"idle", "done", "failed"}
    /\ pc' = "idle"
    /\ lastRun' = RunEnded
    /\ ResetLocals
    /\ ResetObservation
    /\ UNCHANGED <<variant, duration, dirs,
                   disk, runs, deletes>>

\* The run has ended, DONE or FAILED (main(): sys.exit(1) on an exception),
\* and the process exits.
Exit ==
    /\ pc \in {"done", "failed"}
    /\ pc' = "idle"
    /\ lastRun' = RunEnded
    /\ ResetLocals
    /\ ResetObservation
    /\ UNCHANGED <<variant, duration, dirs,
                   disk, runs, deletes>>

\* Another process deletes one chunk record of the job.
ExternalDelete ==
    /\ deletes < MaxDeletes
    /\ \E i \in DOMAIN records :
          /\ records' = Without(records, {i})
          /\ writtenUnder' = Without(writtenUnder, {i})
    /\ deletes' = deletes + 1
    /\ UNCHANGED <<variant, duration, dirs, whisper_model, whisper, model_loads,
                   final, tempFiles, chunkAudio, pc, runs,
                   locals, calls, atStart, processed, saved, error, lastRun>>

\* ------------------------------------------------------------------ Spec

\* The calls of mp3_to_transcript: a caller that passes a chunk length, and
\* main(), which leaves the chunk length at its default and takes --whisper,
\* --force-transcribe and the path of the audio from the command line.  The
\* global `whisper` is looked at only when a local model is asked for.
Invocations ==
    LET Call(paths, lengths, models, modules, forces) ==
            [audio_file_path : paths, chunk_length_ms : lengths,
             whisper_model : models, whisper : modules,
             force_transcribe : forces]
        Default == {DefaultChunkLengthMs}
    IN  Call({GoodPath}, ChunkLengths, {"None"}, {"module"}, {FALSE})
        \cup Call({GoodPath}, Default, {"None"}, {"module"}, {TRUE})
        \cup Call({GoodPath}, Default, {"base"}, {"module", "None"}, {FALSE})
        \cup Call(AudioPaths, Default, {"None"}, {"module"}, {FALSE})

Utility ==
    \/ \E call \in Invocations, use \in BOOLEAN :
          mp3_to_transcript(call.audio_file_path, call.chunk_length_ms,
                            call.whisper_model, call.whisper,
                            call.force_transcribe, use)
    \/ loop_exit
    \/ process_audio_chunk
    \/ Transcriber_transcribe
    \/ Transcriber_raises
    \/ Transcriber_unavailable
    \/ write_chunk_transcript
    \/ remove_chunk_file
    \/ combine_list
    \/ combine_write
    \/ combine_remove
    \/ combine_done

Audio ==
    \/ \E c \in ChunkLengths, ncu \in BOOLEAN :
          AT_get_transcript(c \div 1000, ncu)
    \/ AT_read_transcript
    \/ AT_export_chunk_to_file
    \/ AT_transcribe
    \/ AT_transcribe_raises
    \/ AT_write_text
    \/ AT_save_transcript
    \/ AT_clean

YouTube ==
    \/ \E c \in ChunkLengths : YT_get_transcript(c \div 1000)
    \/ YT_read_transcript
    \/ YT_get_chunk_file
    \/ YT_transcribe
    \/ YT_transcribe_raises
    \/ YT_write
    \/ YT_save_transcript
    \/ YT_clean

\* The program alone: nothing but the pipeline touches the job directory.
Next ==
    \/ Utility
    \/ Audio
    \/ YouTube
    \/ Interrupt
    \/ Exit

Spec == Init /\ [][Next]_vars

\* The program beside an external process that deletes chunk records.
NextEnv ==
    \/ Next
    \/ ExternalDelete

SpecEnv == Init /\ [][NextEnv]_vars

\* A run is under way.
Running == pc \notin {"idle", "done", "failed"}

\* A step of the run that is under way: the interpreter goes on to the next
\* statement, every call it makes returns or raises.
Step == Running /\ (Utility \/ Audio \/ YouTube)

\* The program when no run is killed.
NextRun ==
    \/ Utility
    \/ Audio
    \/ YouTube
    \/ Exit

\* Runs that are left to run: a run under way always takes its next step.
FairSpec == Init /\ [][NextRun]_vars /\ WF_vars(Step)

\* ------------------------------------------------------------------ claims

\* The smallest chunk index with no record.
FirstMissing(S) ==
    CHOOSE i \in 0..Cardinality(S) : i \notin S /\ \A j \in 0..(i - 1) : j \in S

\* The chunk texts of a transcript, its separators left out.
Texts(content) == SelectSeq(content, LAMBDA t : t # <<"\n">>)

Ascending(seq) ==
    \A a, b \in 1..Len(seq) : a < b => seq[a] < seq[b]

InRun == pc # "idle"

\* C1: whatever chunk records are on disk when a run of mp3_to_transcript
\* starts, processing restarts at the smallest index that has no record.
C1_ResumeAtFirstGap ==
    (variant = "utility" /\ processed) =>
        start_chunk = FirstMissing(DOMAIN atStart.records)

\* C2: when a run is interrupted right after the record of chunk k was
\* written and a second run of the same job follows (the chunk records the
\* second run finds have no gap), the second run invokes the backend only for
\* chunks after k, and the transcript it writes is the one the first run
\* would have written undisturbed.
C2_IdempotentResume ==
    ( /\ variant = "utility"
      /\ processed
      /\ lastRun.ended = "interrupted"
      /\ lastRun.k >= 0
      /\ lastRun.chunk_length_ms = chunk_length_ms
      /\ GapFree(DOMAIN atStart.records) ) =>
        /\ \A j \in Range(calls) : j > lastRun.k
        /\ saved => final = lastRun.expected

C2_Witness ==
    /\ variant = "utility"
    /\ processed
    /\ lastRun.ended = "interrupted"
    /\ lastRun.k >= 1
    /\ lastRun.chunk_length_ms = chunk_length_ms
    /\ GapFree(DOMAIN atStart.records)
    /\ pc = "done"
    /\ Len(calls) >= 2
    /\ final = lastRun.expected

\* C3: combine_transcripts reads the chunk records in ascending numeric order
\* of their index, so that a run on a fresh job directory writes the texts of
\* its segments in segment order.
C3_NumericOrder ==
    variant = "utility" =>
        /\ pc = "read" => Ascending(all_chunk_transcripts)
        /\ (pc = "done" /\ processed /\ DOMAIN atStart.records = {}) =>
              final = Join([i \in 1..chunks |->
                              Transcribe(<<(i - 1) * chunk_length_ms,
                                           Min(i * chunk_length_ms, duration)>>)])

\* C4: a step that ends the run FAILED leaves every chunk record and the
\* final transcript as they were, and the run of mp3_to_transcript that
\* follows a failed transcription of chunk i (the chunk records it finds have
\* no gap) starts its loop at chunk i.
C4_FailureKeepsRecords ==
    /\ [][(pc # "failed" /\ pc' = "failed") =>
            (records' = records /\ final' = final)]_vars
    /\ []( ( /\ variant = "utility"
             /\ processed
             /\ lastRun.ended = "failed"
             /\ GapFree(DOMAIN atStart.records) ) =>
            start_chunk = lastRun.at )

C4_Witness ==
    /\ variant = "utility"
    /\ processed
    /\ lastRun.ended = "failed"
    /\ lastRun.at >= 2
    /\ GapFree(DOMAIN atStart.records)
    /\ start_chunk = lastRun.at
    /\ pc = "transcribe"
    /\ chunk_index = lastRun.at
    /\ records = atStart.records

C6_ShortCircuit ==
    ( /\ InRun
      /\ atStart.final # NoFile
      /\ ~(variant = "utility" /\ processed) ) =>
        /\ calls = <<>>
        /\ final = atStart.final
        /\ records = atStart.records

\* C7: a run of main() with --force-transcribe that reaches DONE has
\* transcribed every segment 0..n-1 in that run.
C7_ForceBypasses ==
    (variant = "utility" /\ force_transcribe /\ pc = "done") =>
        /\ processed
        /\ Range(calls) = 0..(chunks - 1)

\* n is ceil(d / c), said without a division.
IsCeil(n, d, c) == n >= 0 /\ (n - 1) * c < d /\ d <= n * c

\* [i * chunk_length_ms, min((i + 1) * chunk_length_ms, duration_ms))
SegmentSpan(i, c) ==
    <<i * c, IF (i + 1) * c <= duration THEN (i + 1) * c ELSE duration>>

\* The spans are ordered, contiguous, non-overlapping and non-empty, their
\* union is [0, duration), and only the last may be shorter than c.
Covers(spans, c) ==
    /\ Len(spans) = 0 => duration = 0
    /\ Len(spans) > 0 => (spans[1][1] = 0 /\ spans[Len(spans)][2] = duration)
    /\ \A k \in 1..Len(spans) :
          /\ spans[k][1] < spans[k][2]
          /\ spans[k][2] - spans[k][1] <= c
          /\ k < Len(spans) =>
                /\ spans[k][2] = spans[k + 1][1]
                /\ spans[k][2] - spans[k][1] = c

\* C8: the number of segments is ceil(duration / chunk_length), the slice
\* handed to the backend for segment i is [i * c, min((i + 1) * c, duration)),
\* and the segments cover [0, duration) contiguously, only the last one
\* possibly shorter than c.
C8_SegmentationCoverage ==
    /\ (variant = "utility" /\ processed) =>
          /\ IsCeil(chunks, duration, chunk_length_ms)
          /\ Covers([k \in 1..chunks |-> SegmentSpan(k - 1, chunk_length_ms)],
                    chunk_length_ms)
          /\ pc \in {"transcribe", "write", "remove"} =>
                chunk = SegmentSpan(chunk_index, chunk_length_ms)
    /\ (variant \in {"audio", "yt"} /\ processed) =>
          /\ IsCeil(Len(chunk_list), duration, chunk_length_ms)
          /\ Covers(chunk_list, chunk_length_ms)
          /\ \A k \in 1..Len(chunk_list) :
                chunk_list[k] = SegmentSpan(k - 1, chunk_length_ms)

C8_Witness ==
    /\ variant = "utility"
    /\ pc = "transcribe"
    /\ chunks >= 3
    /\ chunk_index = chunks - 1
    /\ chunk = <<chunk_index * chunk_length_ms, duration>>
    /\ chunk[2] - chunk[1] < chunk_length_ms

\* C9: a run on audio of duration zero never reaches DONE and writes no final
\* transcript.
C9_ZeroDurationFatal ==
    (variant = "utility" /\ duration = 0 /\ processed) =>
        (pc # "done" /\ ~saved)

\* C10: no record written under another chunk length is counted by the
\* resume scan of a run or read by its combine_transcripts.
C10_StaleRecordsInvalidated ==
    (variant = "utility" /\ processed) =>
        /\ (pc = "loop" /\ chunk_index = start_chunk) =>
              \A i \in Range(existing_chunks) :
                  writtenUnder[i] = chunk_length_ms
        /\ pc = "read" =>
              \A i \in Range(all_chunk_transcripts) :
                  writtenUnder[i] = chunk_length_ms

\* C11: in every variant the final transcript a run writes is its chunk texts
\* joined with exactly one newline between each pair of neighbours, none
\* before the first and none after the last.
C11_NewlineJoin ==
    saved => final = Join(Texts(final))

\* The call of mp3_to_transcript ended in an input error: the audio path is
\* missing, or its format is not among the supported ones.
InputError ==
    /\ variant = "utility"
    /\ pc = "failed"
    /\ ~processed
    /\ error \in {"FileNotFoundError", "ValueError"}

\* C12: a call that ends in an input error leaves the durable state as it
\* was: no directory, chunk record or final transcript exists after it that
\* did not exist before it.
C12_InputErrorLeavesNoState ==
    InputError =>
        /\ dirs \subseteq atStart.dirs
        /\ records = atStart.records
        /\ final = atStart.final

\* The run was asked for the local model and the whisper module is absent.
BackendUnavailable ==
    /\ variant = "utility"
    /\ processed
    /\ whisper_model # "None"
    /\ whisper = "None"

\* C13: a run whose backend is unavailable attempts no chunk processing: up
\* to and including the moment the unavailable-backend error is raised, no
\* slice has been exported to a chunk audio file and no chunk record has been
\* written.
C13_UnavailableBackend ==
    BackendUnavailable =>
        /\ tempFiles = atStart.tempFiles
        /\ records = atStart.records

\* C14: in the per-chunk loop the backend is handed segment i only when no
\* chunk record of i exists: a segment whose record is there is reused.
C14_CachedNeverTranscribed ==
    pc = "transcribe" => chunk_index \notin DOMAIN records

\* C15: whenever a run of mp3_to_transcript writes the final transcript, the
\* records it joins are those of the segment indices 0..n-1 of the current
\* audio, n = ceil(duration / chunk_length_ms): none is missing, none has an
\* index of n or more, and the file holds exactly n chunk texts.
C15_FinalHasEverySegment ==
    [][(variant = "utility" /\ pc = "read" /\ pc' = "cleanup") =>
          /\ chunks = Ceil(duration, chunk_length_ms)
          /\ Range(all_chunk_transcripts) = 0..(chunks - 1)
          /\ Len(Texts(final')) = chunks]_vars

\* C16: a run with the local model that has transcribed one chunk or more has
\* loaded the model exactly once.
C16_ModelLoadedOnce ==
    (variant = "utility" /\ whisper_model # "None" /\ Len(calls) >= 1) =>
        model_loads = 1

\* The indices are consecutive, in increasing order.
Consecutive(seq) ==
    \A k \in 1..(Len(seq) - 1) : seq[k + 1] = seq[k] + 1

\* C17: within a run the chunks are processed one after the other in
\* increasing index order: when the transcription of a chunk starts, the
\* record of every chunk the run processed before it is written, and the
\* reassembly (combine_transcripts, the saving of the transcript) starts only
\* when the record of every chunk of the loop, the last one included, is
\* written.
C17_Sequential ==
    /\ (variant = "utility" /\ processed) =>
          /\ Consecutive(calls)
          /\ calls # <<>> => calls[1] = start_chunk
          /\ pc = "transcribe" =>
                /\ chunk_index = start_chunk + Len(calls)
                /\ \A j \in start_chunk..(chunk_index - 1) :
                      j \in DOMAIN records /\ writtenUnder[j] = chunk_length_ms
          /\ pc \in {"combine", "read"} =>
                \A j \in start_chunk..(chunks - 1) :
                    j \in DOMAIN records /\ writtenUnder[j] = chunk_length_ms
    /\ (variant \in {"audio", "yt"} /\ processed) =>
          /\ Ascending(calls)
          /\ pc = "transcribe" =>
                \A j \in 0..(chunk_index - 1) : j \in DOMAIN records
          /\ (pc = "loop" /\ chunk_index >= Len(chunk_list)) =>
                \A j \in 0..(Len(chunk_list) - 1) : j \in DOMAIN records

C17_Witness ==
    /\ variant = "utility"
    /\ pc = "transcribe"
    /\ start_chunk >= 1
    /\ chunk_index = start_chunk + 2
    /\ calls = <<start_chunk, start_chunk + 1>>
    /\ chunk_index = chunks - 1
    /\ \A j \in start_chunk..(chunk_index - 1) : j \in DOMAIN records

NoDuplicates(seq) ==
    \A a, b \in 1..Len(seq) : a # b => seq[a] # seq[b]

\* C18: in a run the backend is invoked at most once for a segment index, and
\* the first transcription error ends the run: the failed call is the last
\* one, no later segment is transcribed and the run writes no final
\* transcript.
C18_NoRetry ==
    /\ NoDuplicates(calls)
    /\ error = "TranscriptionError" =>
          /\ pc = "failed"
          /\ calls[Len(calls)] = chunk_index
          /\ \A k \in 1..Len(calls) : calls[k] <= chunk_index
          /\ ~saved
          /\ final = atStart.final

C18_Witness ==
    /\ variant = "utility"
    /\ pc = "failed"
    /\ error = "TranscriptionError"
    /\ Len(calls) >= 3
    /\ chunk_index < chunks - 1
    /\ ~saved

\* C19: a run of mp3_to_transcript beside a process that deletes chunk
\* records neither crashes on a record that was listed and is gone when it is
\* read, nor writes a final transcript that lacks a segment the run had
\* counted as cached or had transcribed.
C19_ToleratesExternalDeletion ==
    (variant = "utility" /\ processed) =>
        /\ ~(pc = "failed" /\ error = "FileNotFoundError")
        /\ saved =>
              Len(Texts(final)) >=
                  Cardinality(Range(existing_chunks)
                                  \cup start_chunk..(chunks - 1))

\* The moves of a run of mp3_to_transcript.  INIT and SEGMENTING are the call
\* up to the loop ("idle" to "loop"), the per-chunk states are "loop",
\* "transcribe", "write" and "remove", REASSEMBLING is "combine", "read" and
\* "cleanup".
Transitions ==
    { <<"idle", "loop">>, <<"idle", "done">>, <<"idle", "failed">>,
      <<"loop", "transcribe">>, <<"transcribe", "write">>,
      <<"transcribe", "failed">>, <<"write", "remove">>,
      <<"remove", "loop">>, <<"loop", "combine">>, <<"combine", "read">>,
      <<"read", "cleanup">>, <<"read", "failed">>,
      <<"cleanup", "cleanup">>, <<"cleanup", "failed">>,
      <<"cleanup", "done">>, <<"done", "idle">>, <<"failed", "idle">> }

\* C20: a run of mp3_to_transcript moves from the call through the per-chunk
\* loop and the reassembly to DONE, or to FAILED; DONE and FAILED are
\* terminal (nothing but the exit of the process follows, the job directory
\* stays as it is); DONE is reached only with a final transcript on disk;
\* and a run that is left to run reaches DONE or FAILED.
C20_RunLifecycle ==
    /\ [][(variant = "utility") => (<<pc, pc'>> \in Transitions)]_vars
    /\ [][(pc \in {"done", "failed"}) =>
            (pc' = "idle" /\ disk' = disk /\ dirs' = dirs)]_vars
    /\ []((variant = "utility" /\ pc = "done") => final # NoFile)
    /\ (Running ~> pc \in {"done", "failed"})

C20_Witness ==
    /\ variant = "utility"
    /\ pc = "done"
    /\ processed
    /\ saved
    /\ start_chunk >= 1
    /\ chunks >= start_chunk + 2
    /\ Len(calls) = chunks - start_chunk
    /\ final # NoFile
    /\ DOMAIN records = {}

\* C21: when a run of mp3_to_transcript has ended, DONE or FAILED, no chunk
\* audio file that process_audio_chunk created during the run is left: there
\* are as many temporary files as when the run started, also after a run
\* whose transcription raised.
C21_TempAudioRemoved ==
    (variant = "utility" /\ pc \in {"done", "failed"}) =>
        tempFiles = atStart.tempFiles

====
